---- MODULE Spec2Model ----
(***************************************************************************)
(* JoseJWE.Encrypter (lib/jose-jwe-encrypt.js): the producer side of the   *)
(* JWE Compact Serialization.  The Encrypter composes promises handed out  *)
(* by a Cryptographer delegate; the model follows the promise reactions    *)
(* job by job, in the order the job queue of the host runs them.           *)
(*                                                                         *)
(* Strings are sequences of one-character strings, byte arrays are         *)
(* sequences of numbers in 0..255.                                         *)
(***************************************************************************)
EXTENDS Integers, Sequences, FiniteSets, TLC

(***************************************************************************)
(* Bounds of the model.                                                    *)
(***************************************************************************)
MaxCalls == 2
MaxAddHeader == 2

Calls == 1..MaxCalls

(***************************************************************************)
(* Promises.                                                               *)
(***************************************************************************)
NoVal == << >>
Absent == [st |-> "absent", v |-> NoVal]
Pending == [st |-> "pending", v |-> NoVal]
Fulfilled(v) == [st |-> "fulfilled", v |-> v]
Rejected(e) == [st |-> "rejected", v |-> e]
Settled(p) == p.st \in { "fulfilled", "rejected" }

\* Promise.all of two promises: the values of the elements fulfilled so far,
\* by index, and the number of elements still awaited.
PendingAll == [st |-> "pending", v |-> << >>, left |-> 2]

\* A Promise.all that rejects with an error of its own in place of the error
\* of its element.
AllElementWrappingError(a, idx, p) ==
  IF a.st # "pending" THEN a
  ELSE IF p.st = "rejected" THEN [a EXCEPT !.st = "rejected", !.v = "Error"]
  ELSE [st |-> IF a.left = 1 THEN "fulfilled" ELSE "pending",
        v |-> (idx :> p.v) @@ a.v,
        left |-> a.left - 1]

\* A race in place of a join: fulfilled with the first element that fulfils.
AllElementRace(a, idx, p) ==
  IF a.st # "pending" THEN a
  ELSE IF p.st = "rejected" THEN [a EXCEPT !.st = "rejected", !.v = p.v]
  ELSE [st |-> "fulfilled", v |-> (idx :> p.v) @@ a.v @@ << NoVal, NoVal >>,
        left |-> a.left - 1]

\* The reaction of a Promise.all a to its element number idx, the settled
\* promise p: the first rejection rejects a, the last fulfilment fulfils it,
\* and a settled a stays as it is.
AllElement(a, idx, p) ==
  IF a.st # "pending" THEN a
  ELSE IF p.st = "rejected" THEN [a EXCEPT !.st = "rejected", !.v = p.v]
  ELSE [st |-> IF a.left = 1 THEN "fulfilled" ELSE "pending",
        v |-> (idx :> p.v) @@ a.v,
        left |-> a.left - 1]

(***************************************************************************)
(* Characters and bytes.                                                   *)
(***************************************************************************)
\* The printable ASCII characters, code 32 first (code 96, the grave accent,
\* cannot be written in a TLA+ string and is left out).
Printable ==
  << " ", "!", "\"", "#", "$", "%", "&", "'", "(", ")", "*", "+", ",", "-", ".", "/",
     "0", "1", "2", "3", "4", "5", "6", "7", "8", "9", ":", ";", "<", "=", ">", "?",
     "@", "A", "B", "C", "D", "E", "F", "G", "H", "I", "J", "K", "L", "M", "N", "O",
     "P", "Q", "R", "S", "T", "U", "V", "W", "X", "Y", "Z", "[", "\\", "]", "^", "_",
     "", "a", "b", "c", "d", "e", "f", "g", "h", "i", "j", "k", "l", "m", "n", "o",
     "p", "q", "r", "s", "t", "u", "v", "w", "x", "y", "z", "{", "|", "}", "~" >>

CharCode(ch) == 31 + (CHOOSE i \in 1..Len(Printable) : Printable[i] = ch)

\* Utils.arrayFromString: one byte per character, its character code.
arrayFromString(str) == [i \in 1..Len(str) |-> CharCode(str[i])]

\* The base64url alphabet (RFC 4648, section 5), value 0 first.
Base64UrlAlphabet ==
  << "A", "B", "C", "D", "E", "F", "G", "H", "I", "J", "K", "L", "M", "N", "O", "P",
     "Q", "R", "S", "T", "U", "V", "W", "X", "Y", "Z", "a", "b", "c", "d", "e", "f",
     "g", "h", "i", "j", "k", "l", "m", "n", "o", "p", "q", "r", "s", "t", "u", "v",
     "w", "x", "y", "z", "0", "1", "2", "3", "4", "5", "6", "7", "8", "9", "-", "_" >>

Digit(n) == Base64UrlAlphabet[n + 1]

\* Three bytes give four digits; a last group of one or two bytes gives two or
\* three digits, and no padding follows.
RECURSIVE Base64UrlEncodeArray(_)
Base64UrlEncodeArray(arr) ==
  IF Len(arr) = 0 THEN << >>
  ELSE IF Len(arr) = 1 THEN
    << Digit(arr[1] \div 4), Digit((arr[1] % 4) * 16) >>
  ELSE IF Len(arr) = 2 THEN
    << Digit(arr[1] \div 4),
       Digit((arr[1] % 4) * 16 + arr[2] \div 16),
       Digit((arr[2] % 16) * 4) >>
  ELSE
    << Digit(arr[1] \div 4),
       Digit((arr[1] % 4) * 16 + arr[2] \div 16),
       Digit((arr[2] % 16) * 4 + arr[3] \div 64),
       Digit(arr[3] % 64) >>
    \o Base64UrlEncodeArray(SubSeq(arr, 4, Len(arr)))

\* Utils.Base64Url.encode: the base64url form of the bytes of a string.
Base64UrlEncode(str) == Base64UrlEncodeArray(arrayFromString(str))

(***************************************************************************)
(* Header maps: the own properties of a JavaScript object in insertion     *)
(* order, a sequence of <<key, value>> pairs with distinct keys.           *)
(***************************************************************************)
HasKey(h, k) == \E i \in 1..Len(h) : h[i][1] = k

\* obj[k] = v: an existing property keeps its place, a new one goes last.
SetProp(h, k, v) ==
  IF HasKey(h, k)
  THEN [i \in 1..Len(h) |-> IF h[i][1] = k THEN <<k, v>> ELSE h[i]]
  ELSE Append(h, <<k, v>>)

RECURSIVE JsonMembers(_)
JsonMembers(h) ==
  IF Len(h) = 0 THEN << >>
  ELSE (IF Len(h) = 1 THEN << >> ELSE JsonMembers(SubSeq(h, 1, Len(h) - 1)) \o << "," >>)
       \o << "\"" >> \o h[Len(h)][1] \o << "\"", ":", "\"" >> \o h[Len(h)][2] \o << "\"" >>

\* JSON.stringify of an object whose keys and values are plain strings.
JsonStringify(h) == << "{" >> \o JsonMembers(h) \o << "}" >>

(***************************************************************************)
(* The collaborators: what the caller and the Cryptographer hand in.       *)
(***************************************************************************)
alg == << "a", "l", "g" >>
enc == << "e", "n", "c" >>
kid == << "k", "i", "d" >>

\* The algorithm identifiers the Cryptographer is configured with.
KeyEncryptionAlgorithm == << "d", "i", "r" >>
ContentEncryptionAlgorithm == << "A", "1", "2", "8", "G", "C", "M" >>

\* What the caller passes to addHeader and to encrypt.
HeaderKeys == { alg, enc, kid }
HeaderInputs == { << alg, << "1" >> >>, << enc, << "1" >> >>,
                  << kid, << "1" >> >>, << kid, << "2" >> >> }
\* The caller encrypts the empty string and "hi" in turn.
Plaintexts == << << >>, << "h", "i" >> >>
PlainText(c) == Plaintexts[((c - 1) % Len(Plaintexts)) + 1]
RecipientKey == "key"

\* The Cryptographers an Encrypter may be built on: one that wraps to an empty
\* key and fulfils the promise of every encrypt with the same fixed result
\* object, and one that wraps to a non-empty key and fulfils the promise of
\* every encrypt with a new object.  Both make new IV bytes on every call.
Cryptographers ==
  { [wrapCek |-> << >>, encrypt |-> "fixed"],
    [wrapCek |-> << 46, 46 >>, encrypt |-> "new"] }

NewIV(c) == << c, 251, 255 >>
FixedResult == [cipher |-> << 104, 46 >>, tag |-> << >>]
\* A cipher text as long as the plain text, and a tag.
NewResult(plain_text) ==
  [cipher |-> [i \in 1..Len(plain_text) |-> (plain_text[i] + 198) % 256],
   tag |-> << 46, 251, 255 >>]

\* The errors of the collaborators, one per operation.
KeyErr == "KeyUnavailable"
CekErr == "CekGenerationFailure"
WrapErr == "WrapFailure"
EncErr == "ContentEncryptionFailure"
AlgErr == "KeyAlgorithmFailure"
EncAlgErr == "ContentAlgorithmFailure"
IvErr == "IvFailure"

VARIABLES
  userHeaders,    \* that.userHeaders
  key_promise,    \* that.key_promise
  cryptographer,  \* that.cryptographer
  phase,          \* per call: "idle", "started" (a promise was returned), "threw"
  thrown,         \* per call: the exception encrypt threw, if any
  prom,           \* per call: the promises of the call
  closure,        \* per call: jwe_protected_header and iv, as the callback holds them
  heap,           \* the result objects the Cryptographer hands back, by identity
  queue,          \* the promise reaction jobs, first in first out
  ops,            \* per call: the operations invoked on the Cryptographer, in order
  added,          \* history: the number of addHeader calls
  written,        \* history: per header key, the last value given to addHeader
  invoked         \* history: per call, userHeaders and written when encrypt was called

headerVars == << userHeaders, added, written >>
callVars == << phase, thrown, closure, invoked >>
vars == << headerVars, callVars, key_promise, cryptographer, prom, heap, queue, ops >>

NoPromises ==
  [cek_promise |-> Absent, key_and_cek |-> Absent, wrapCek |-> Absent,
   encrypted_cek |-> Absent, encrypt |-> Absent, enc_promise |-> Absent,
   all |-> Absent, result |-> Absent]

\* The result objects: object 0 is the fixed one, object c the new one of call c.
Objects == 0..MaxCalls
NoObject == [cipher |-> << >>, tag |-> << >>, header |-> << >>, iv |-> << >>]
Object(r) == [cipher |-> r.cipher, tag |-> r.tag, header |-> << >>, iv |-> << >>]

\* new Encrypter(cryptographer, key_promise): the key promise may be settled
\* already when the Encrypter is built.
Init ==
  /\ userHeaders = << >>
  /\ \/ key_promise = Pending
     \/ key_promise \in { Fulfilled(RecipientKey), Rejected(KeyErr) }
  /\ cryptographer \in Cryptographers
  /\ phase = [c \in Calls |-> "idle"]
  /\ thrown = [c \in Calls |-> ""]
  /\ prom = [c \in Calls |-> NoPromises]
  /\ closure = [c \in Calls |-> [header |-> << >>, iv |-> << >>]]
  /\ heap = [o \in Objects |-> IF o = 0 THEN Object(FixedResult) ELSE NoObject]
  /\ queue = << >>
  /\ ops = [c \in Calls |-> << >>]
  /\ added = 0
  /\ written = [k \in HeaderKeys |-> << >>]
  /\ invoked = [c \in Calls |-> [userHeaders |-> << >>, written |-> written]]

(***************************************************************************)
(* addHeader                                                               *)
(***************************************************************************)
\* The model follows addHeader while a call that reads the map can still come.
AddHeader(k, v) ==
  /\ added < MaxAddHeader
  /\ \E c \in Calls : phase[c] = "idle"
  /\ added' = added + 1
  /\ userHeaders' = SetProp(userHeaders, k, v)
  /\ written' = [written EXCEPT ![k] = v]
  /\ UNCHANGED << callVars, key_promise, cryptographer, prom, heap, queue, ops >>

(***************************************************************************)
(* encrypt: the synchronous part                                           *)
(***************************************************************************)
\* Headers in which alg and enc are set only where the user gave none.
HeadersUserWins(user) ==
  LET withAlg == IF HasKey(user, alg) THEN user ELSE SetProp(user, alg, KeyEncryptionAlgorithm)
  IN  IF HasKey(withAlg, enc) THEN withAlg ELSE SetProp(withAlg, enc, ContentEncryptionAlgorithm)

\* Lines 65-70: the copy of the user headers, then alg and enc.
Headers(user) ==
  SetProp(SetProp(user, alg, KeyEncryptionAlgorithm), enc, ContentEncryptionAlgorithm)

\* Line 71.
ProtectedHeader(user) == Base64UrlEncode(JsonStringify(Headers(user)))

\* Line 74.
createIV(c) == NewIV(c)

Op(name) == [op |-> name]

\* A synchronous part that copies the user headers after it made the IV.
SyncOpsLateCopy(threw, iv, aad, c, plain_text) ==
  LET full == << Op("createCek"), Op("getKeyEncryptionAlgorithm"),
                 Op("getContentEncryptionAlgorithm"), Op("createIV"), Op("copyHeaders"),
                 [op |-> "encrypt", iv |-> iv, aad |-> aad, cek_promise |-> c,
                  plain_text |-> arrayFromString(plain_text)] >>
  IN  CASE threw = "none" -> full
        [] threw = AlgErr -> SubSeq(full, 1, 2)
        [] threw = EncAlgErr -> SubSeq(full, 1, 3)
        [] threw = IvErr -> SubSeq(full, 1, 4)

\* The operations of the synchronous part, in the order of the code, up to the
\* one that throws.
SyncOps(threw, iv, aad, c, plain_text) ==
  LET full == << Op("createCek"), Op("copyHeaders"),
                 Op("getKeyEncryptionAlgorithm"), Op("getContentEncryptionAlgorithm"),
                 Op("createIV"),
                 [op |-> "encrypt", iv |-> iv, aad |-> aad, cek_promise |-> c,
                  plain_text |-> arrayFromString(plain_text)] >>
  IN  CASE threw = "none" -> full
        [] threw = AlgErr -> SubSeq(full, 1, 3)
        [] threw = EncAlgErr -> SubSeq(full, 1, 4)
        [] threw = IvErr -> SubSeq(full, 1, 5)

\* An encrypt that sets alg and enc in the header map of the Encrypter itself.
EncryptWritingBack(c, threw) ==
  LET plain_text == PlainText(c)
      jwe_protected_header == ProtectedHeader(userHeaders)
      iv == createIV(c)
      aad == arrayFromString(jwe_protected_header)
      \* Line 91: Promise.all subscribes to both promises; a key promise that
      \* is settled already has its reaction queued at once.
      keyJob == IF Settled(key_promise) THEN << << c, "keyElement" >> >> ELSE << >>
  IN  /\ phase[c] = "idle"
      /\ \A d \in Calls : d < c => phase[d] # "idle"
      /\ ops' = [ops EXCEPT ![c] = SyncOps(threw, iv, aad, c, plain_text)]
      /\ queue' = queue \o keyJob
      /\ invoked' = [invoked EXCEPT ![c] = [userHeaders |-> userHeaders, written |-> written]]
      /\ IF threw = "none"
         THEN /\ phase' = [phase EXCEPT ![c] = "started"]
              /\ thrown' = thrown
              /\ closure' = [closure EXCEPT ![c] = [header |-> jwe_protected_header, iv |-> iv]]
              /\ prom' = [prom EXCEPT ![c] =
                   [cek_promise |-> Pending, key_and_cek |-> PendingAll, wrapCek |-> Absent,
                    encrypted_cek |-> Pending, encrypt |-> Pending, enc_promise |-> Pending,
                    all |-> PendingAll, result |-> Pending]]
         ELSE \* The exception leaves encrypt; lines 88-95 have run.
              /\ phase' = [phase EXCEPT ![c] = "threw"]
              /\ thrown' = [thrown EXCEPT ![c] = threw]
              /\ closure' = closure
              /\ prom' = [prom EXCEPT ![c] =
                   [NoPromises EXCEPT !.cek_promise = Pending, !.key_and_cek = PendingAll,
                                      !.encrypted_cek = Pending]]
      /\ userHeaders' = Headers(userHeaders)
      /\ UNCHANGED << added, written, key_promise, cryptographer, heap >>

Encrypt(c, threw) ==
  LET plain_text == PlainText(c)
      jwe_protected_header == ProtectedHeader(userHeaders)
      iv == createIV(c)
      aad == arrayFromString(jwe_protected_header)
      \* Line 91: Promise.all subscribes to both promises; a key promise that
      \* is settled already has its reaction queued at once.
      keyJob == IF Settled(key_promise) THEN << << c, "keyElement" >> >> ELSE << >>
  IN  /\ phase[c] = "idle"
      /\ \A d \in Calls : d < c => phase[d] # "idle"
      /\ ops' = [ops EXCEPT ![c] = SyncOps(threw, iv, aad, c, plain_text)]
      /\ queue' = queue \o keyJob
      /\ invoked' = [invoked EXCEPT ![c] = [userHeaders |-> userHeaders, written |-> written]]
      /\ IF threw = "none"
         THEN /\ phase' = [phase EXCEPT ![c] = "started"]
              /\ thrown' = thrown
              /\ closure' = [closure EXCEPT ![c] = [header |-> jwe_protected_header, iv |-> iv]]
              /\ prom' = [prom EXCEPT ![c] =
                   [cek_promise |-> Pending, key_and_cek |-> PendingAll, wrapCek |-> Absent,
                    encrypted_cek |-> Pending, encrypt |-> Pending, enc_promise |-> Pending,
                    all |-> PendingAll, result |-> Pending]]
         ELSE \* The exception leaves encrypt; lines 88-95 have run.
              /\ phase' = [phase EXCEPT ![c] = "threw"]
              /\ thrown' = [thrown EXCEPT ![c] = threw]
              /\ closure' = closure
              /\ prom' = [prom EXCEPT ![c] =
                   [NoPromises EXCEPT !.cek_promise = Pending, !.key_and_cek = PendingAll,
                                      !.encrypted_cek = Pending]]
      /\ UNCHANGED << headerVars, key_promise, cryptographer, heap >>

(***************************************************************************)
(* The collaborators settle their promises.  A settlement comes from a     *)
(* task of the host, and the host runs a task only when the job queue is   *)
(* empty; the caller, who may itself run in a job, calls at any point      *)
(* between two jobs.                                                       *)
(***************************************************************************)
Started == { c \in Calls : phase[c] # "idle" }

\* The calls subscribed to the key promise, in the order they subscribed.
KeyJobs == [i \in 1..Cardinality(Started) |-> << i, "keyElement" >>]

SettleKey(res) ==
  /\ queue = << >>
  /\ key_promise.st = "pending"
  /\ key_promise' = res
  /\ queue' = queue \o KeyJobs
  /\ UNCHANGED << headerVars, callVars, cryptographer, prom, heap, ops >>

SettleCek(c, res) ==
  /\ queue = << >>
  /\ prom[c].cek_promise.st = "pending"
  /\ prom' = [prom EXCEPT ![c].cek_promise = res]
  /\ queue' = Append(queue, << c, "cekElement" >>)
  /\ UNCHANGED << headerVars, callVars, key_promise, cryptographer, heap, ops >>

\* The CEK of call c is written c: createCek makes a new key on every call.
ResolveCek(c) == SettleCek(c, Fulfilled(c))

RejectCek(c) == SettleCek(c, Rejected(CekErr))

SettleWrap(c, res) ==
  /\ queue = << >>
  /\ prom[c].wrapCek.st = "pending"
  /\ prom' = [prom EXCEPT ![c].wrapCek = res]
  /\ queue' = Append(queue, << c, "wrapSettled" >>)
  /\ UNCHANGED << headerVars, callVars, key_promise, cryptographer, heap, ops >>

ResolveWrap(c) == SettleWrap(c, Fulfilled(cryptographer.wrapCek))

RejectWrap(c) == SettleWrap(c, Rejected(WrapErr))

\* What line 80 passed to the encrypt of the Cryptographer.
EncryptArguments(c) == ops[c][CHOOSE i \in 1..Len(ops[c]) : ops[c][i].op = "encrypt"]

\* Call c invoked the operation named b on the Cryptographer.
HasOp(c, b) == \E j \in 1..Len(ops[c]) : ops[c][j].op = b

\* What line 94 passed to the wrapCek of the Cryptographer.
WrapArguments(c) == ops[c][CHOOSE i \in 1..Len(ops[c]) : ops[c][i].op = "wrapCek"]

\* The Cryptographer fulfils the promise of its encrypt with its fixed result
\* object or with a new one.
ResolveEncrypt(c) ==
  LET o == IF cryptographer.encrypt = "fixed" THEN 0 ELSE c
  IN  /\ queue = << >>
      /\ prom[c].encrypt.st = "pending"
      /\ heap' = IF o = 0 THEN heap
                 ELSE [heap EXCEPT ![o] = Object(NewResult(EncryptArguments(c).plain_text))]
      /\ prom' = [prom EXCEPT ![c].encrypt = Fulfilled(o)]
      /\ queue' = Append(queue, << c, "encryptCallback" >>)
      /\ UNCHANGED << headerVars, callVars, key_promise, cryptographer, ops >>

RejectEncrypt(c) ==
  /\ queue = << >>
  /\ prom[c].encrypt.st = "pending"
  /\ prom' = [prom EXCEPT ![c].encrypt = Rejected(EncErr)]
  /\ queue' = Append(queue, << c, "encryptCallback" >>)
  /\ UNCHANGED << headerVars, callVars, key_promise, cryptographer, heap, ops >>

(***************************************************************************)
(* encrypt: the promise reactions                                          *)
(***************************************************************************)
Job(c, name) == queue # << >> /\ Head(queue) = << c, name >>

\* The job a settled promise queues: none while it is pending.
JobIf(cond, c, name) == IF cond THEN << << c, name >> >> ELSE << >>

\* Line 91, Promise.all([that.key_promise, cek_promise]): its two reactions.
KeyAndCekElement(c, name, idx, p) ==
  LET a == AllElement(prom[c].key_and_cek, idx, p)
  IN  /\ Job(c, name)
      /\ queue' = Tail(queue)
                  \o JobIf(prom[c].key_and_cek.st = "pending" /\ a.st # "pending", c, "wrapCallback")
      /\ prom' = [prom EXCEPT ![c].key_and_cek = a]
      /\ UNCHANGED << headerVars, callVars, key_promise, cryptographer, heap, ops >>

KeyElement(c) == KeyAndCekElement(c, "keyElement", 1, key_promise)

\* A CEK kept from the first call and used again by the later ones.
CekElementShared(c) ==
  KeyAndCekElement(c, "cekElement", 2,
                   IF prom[1].cek_promise.st = "fulfilled" THEN prom[1].cek_promise
                   ELSE prom[c].cek_promise)

CekElement(c) == KeyAndCekElement(c, "cekElement", 2, prom[c].cek_promise)

\* A callback that gives up the wrap when the call has failed already.
WrapCallbackCancelled(c) ==
  LET a == prom[c].key_and_cek
      failed == prom[c].enc_promise.st = "rejected" \/ prom[c].result.st = "rejected"
  IN  /\ Job(c, "wrapCallback")
      /\ IF a.st = "rejected"
         THEN /\ prom' = [prom EXCEPT ![c].encrypted_cek = Rejected(a.v)]
              /\ queue' = Tail(queue) \o JobIf(prom[c].all.st # "absent", c, "encryptedCekElement")
              /\ ops' = ops
         ELSE IF failed
         THEN /\ prom' = prom
              /\ queue' = Tail(queue)
              /\ ops' = ops
         ELSE /\ prom' = [prom EXCEPT ![c].wrapCek = Pending]
              /\ queue' = Tail(queue)
              /\ ops' = [ops EXCEPT ![c] =
                   Append(@, [op |-> "wrapCek", cek |-> a.v[2], key |-> a.v[1]])]
      /\ UNCHANGED << headerVars, callVars, key_promise, cryptographer, heap >>

\* A then that runs the callback on rejection as well as on fulfilment.
WrapCallbackOnRejection(c) ==
  LET a == prom[c].key_and_cek
  IN  /\ Job(c, "wrapCallback")
      /\ prom' = [prom EXCEPT ![c].wrapCek = Pending]
      /\ queue' = Tail(queue)
      /\ ops' = [ops EXCEPT ![c] =
           Append(@, IF a.st = "rejected" THEN [op |-> "wrapCek", cek |-> c, key |-> RecipientKey]
                     ELSE [op |-> "wrapCek", cek |-> a.v[2], key |-> a.v[1]])]
      /\ UNCHANGED << headerVars, callVars, key_promise, cryptographer, heap >>

\* Lines 91-95: the callback of the then, or the rejection passing through.
WrapCallback(c) ==
  LET a == prom[c].key_and_cek
  IN  /\ Job(c, "wrapCallback")
      /\ IF a.st = "rejected"
         THEN /\ queue' = Tail(queue) \o JobIf(prom[c].all.st # "absent", c, "encryptedCekElement")
              /\ prom' = [prom EXCEPT ![c].encrypted_cek = Rejected(a.v)]
              /\ ops' = ops
         ELSE /\ queue' = Tail(queue)
              /\ prom' = [prom EXCEPT ![c].wrapCek = Pending]
              /\ ops' = [ops EXCEPT ![c] =
                   Append(@, [op |-> "wrapCek", cek |-> a.v[2], key |-> a.v[1]])]
      /\ UNCHANGED << headerVars, callVars, key_promise, cryptographer, heap >>

\* A wrap that is tried again when it failed.
WrapSettledRetrying(c) ==
  /\ Job(c, "wrapSettled")
  /\ IF prom[c].wrapCek.st = "rejected"
     THEN /\ prom' = [prom EXCEPT ![c].wrapCek = Pending]
          /\ queue' = Tail(queue)
          /\ ops' = [ops EXCEPT ![c] = Append(@, WrapArguments(c))]
     ELSE /\ prom' = [prom EXCEPT ![c].encrypted_cek = prom[c].wrapCek]
          /\ queue' = Tail(queue) \o JobIf(prom[c].all.st # "absent", c, "encryptedCekElement")
          /\ ops' = ops
  /\ UNCHANGED << headerVars, callVars, key_promise, cryptographer, heap >>

\* encrypted_cek follows the promise wrapCek returned.
WrapSettled(c) ==
  /\ Job(c, "wrapSettled")
  /\ queue' = Tail(queue) \o JobIf(prom[c].all.st # "absent", c, "encryptedCekElement")
  /\ prom' = [prom EXCEPT ![c].encrypted_cek = prom[c].wrapCek]
  /\ UNCHANGED << headerVars, callVars, key_promise, cryptographer, heap, ops >>

\* A callback that runs only once the recipient key is there.
EncryptCallbackAfterKey(c) ==
  LET p == prom[c].encrypt
  IN  /\ Job(c, "encryptCallback")
      /\ IF p.st = "rejected"
         THEN /\ prom' = [prom EXCEPT ![c].enc_promise = Rejected(p.v)]
              /\ heap' = heap
              /\ queue' = Tail(queue) \o << << c, "encPromiseElement" >> >>
         ELSE IF key_promise.st # "fulfilled"
         THEN /\ prom' = prom
              /\ heap' = heap
              /\ queue' = Tail(queue)
         ELSE /\ heap' = [heap EXCEPT ![p.v].header = closure[c].header,
                                      ![p.v].iv = closure[c].iv]
              /\ prom' = [prom EXCEPT ![c].enc_promise = Fulfilled(p.v)]
              /\ queue' = Tail(queue) \o << << c, "encPromiseElement" >> >>
      /\ UNCHANGED << headerVars, callVars, key_promise, cryptographer, ops >>

\* Lines 80-84: the callback writes header and iv into the object it was given.
EncryptCallback(c) ==
  LET p == prom[c].encrypt
  IN  /\ Job(c, "encryptCallback")
      /\ queue' = Tail(queue) \o << << c, "encPromiseElement" >> >>
      /\ IF p.st = "rejected"
         THEN /\ prom' = [prom EXCEPT ![c].enc_promise = Rejected(p.v)]
              /\ heap' = heap
         ELSE /\ heap' = [heap EXCEPT ![p.v].header = closure[c].header,
                                      ![p.v].iv = closure[c].iv]
              /\ prom' = [prom EXCEPT ![c].enc_promise = Fulfilled(p.v)]
      /\ UNCHANGED << headerVars, callVars, key_promise, cryptographer, ops >>

\* A join that takes every rejection, also after it has settled, and runs the
\* last callback again.
AllOfCallResettling(c, name, idx, p) ==
  LET a == IF p.st = "rejected" THEN [prom[c].all EXCEPT !.st = "rejected", !.v = p.v]
           ELSE AllElement(prom[c].all, idx, p)
  IN  /\ Job(c, name)
      /\ prom' = [prom EXCEPT ![c].all = a]
      /\ queue' = Tail(queue)
                  \o JobIf(a.st # "pending" /\ (prom[c].all.st = "pending" \/ p.st = "rejected"),
                           c, "assemble")
      /\ UNCHANGED << headerVars, callVars, key_promise, cryptographer, heap, ops >>

\* Line 101, Promise.all([encrypted_cek, enc_promise]): its two reactions.
AllOfCall(c, name, idx, p) ==
  LET a == AllElement(prom[c].all, idx, p)
  IN  /\ Job(c, name)
      /\ queue' = Tail(queue)
                  \o JobIf(prom[c].all.st = "pending" /\ a.st # "pending", c, "assemble")
      /\ prom' = [prom EXCEPT ![c].all = a]
      /\ UNCHANGED << headerVars, callVars, key_promise, cryptographer, heap, ops >>

EncryptedCekElement(c) == AllOfCall(c, "encryptedCekElement", 1, prom[c].encrypted_cek)

EncPromiseElement(c) == AllOfCall(c, "encPromiseElement", 2, prom[c].enc_promise)

\* A token that joins only the segments that are not empty.
TokenSkippingEmpty(encrypted_cek, data) ==
  LET Dot(seg) == IF seg = << >> THEN << >> ELSE << "." >> \o seg
  IN  data.header \o Dot(Base64UrlEncodeArray(encrypted_cek)) \o
      Dot(Base64UrlEncodeArray(data.iv)) \o Dot(Base64UrlEncodeArray(data.cipher)) \o
      Dot(Base64UrlEncodeArray(data.tag))

\* Lines 104-108.
Token(encrypted_cek, data) ==
  data.header \o << "." >> \o
  Base64UrlEncodeArray(encrypted_cek) \o << "." >> \o
  Base64UrlEncodeArray(data.iv) \o << "." >> \o
  Base64UrlEncodeArray(data.cipher) \o << "." >> \o
  Base64UrlEncodeArray(data.tag)

\* A last then that catches the rejection and answers with an empty string.
AssembleSwallowingError(c) ==
  LET a == prom[c].all
  IN  /\ Job(c, "assemble")
      /\ prom' = [prom EXCEPT ![c].result =
           IF a.st = "rejected" THEN Fulfilled(<< >>)
           ELSE Fulfilled(Token(a.v[1], heap[a.v[2]]))]
      /\ queue' = Tail(queue)
      /\ UNCHANGED << headerVars, callVars, key_promise, cryptographer, heap, ops >>

\* A last then that settles its promise only with a token.
AssembleOnlyOnSuccess(c) ==
  LET a == prom[c].all
  IN  /\ Job(c, "assemble")
      /\ queue' = Tail(queue)
      /\ prom' = [prom EXCEPT ![c].result =
           IF a.st = "rejected" THEN Pending
           ELSE Fulfilled(Token(a.v[1], heap[a.v[2]]))]
      /\ UNCHANGED << headerVars, callVars, key_promise, cryptographer, heap, ops >>

\* Lines 101-109: the callback of the last then, or the rejection passing through.
Assemble(c) ==
  LET a == prom[c].all
  IN  /\ Job(c, "assemble")
      /\ queue' = Tail(queue)
      /\ prom' = [prom EXCEPT ![c].result =
           IF a.st = "rejected" THEN Rejected(a.v)
           ELSE Fulfilled(Token(a.v[1], heap[a.v[2]]))]
      /\ UNCHANGED << headerVars, callVars, key_promise, cryptographer, heap, ops >>

Next ==
  \/ \E kv \in HeaderInputs : AddHeader(kv[1], kv[2])
  \/ \E c \in Calls, t \in { "none", AlgErr, EncAlgErr, IvErr } : Encrypt(c, t)
  \/ \E res \in { Fulfilled(RecipientKey), Rejected(KeyErr) } : SettleKey(res)
  \/ \E c \in Calls : ResolveCek(c)
  \/ \E c \in Calls : RejectCek(c)
  \/ \E c \in Calls : ResolveWrap(c)
  \/ \E c \in Calls : RejectWrap(c)
  \/ \E c \in Calls : ResolveEncrypt(c)
  \/ \E c \in Calls : RejectEncrypt(c)
  \/ \E c \in Calls : KeyElement(c)
  \/ \E c \in Calls : CekElement(c)
  \/ \E c \in Calls : WrapCallback(c)
  \/ \E c \in Calls : WrapSettled(c)
  \/ \E c \in Calls : EncryptCallback(c)
  \/ \E c \in Calls : EncryptedCekElement(c)
  \/ \E c \in Calls : EncPromiseElement(c)
  \/ \E c \in Calls : Assemble(c)

Spec == Init /\ [][Next]_vars

(***************************************************************************)
(* Reading a token back: what a recipient sees.                            *)
(***************************************************************************)
Count(str, ch) == Cardinality({ i \in 1..Len(str) : str[i] = ch })

\* The pieces of str between the occurrences of ch: one more than there are
\* occurrences.
RECURSIVE Split(_, _)
Split(str, ch) ==
  IF \A i \in 1..Len(str) : str[i] # ch THEN << str >>
  ELSE LET at == CHOOSE i \in 1..Len(str) : str[i] = ch /\ \A j \in 1..(i - 1) : str[j] # ch
       IN  << SubSeq(str, 1, at - 1) >> \o Split(SubSeq(str, at + 1, Len(str)), ch)

IsBase64Url(str) == \A i \in 1..Len(str) : \E n \in 0..63 : Digit(n) = str[i]

Value(ch) == CHOOSE n \in 0..63 : Digit(n) = ch

\* The bytes a base64url string without padding stands for.
RECURSIVE Base64UrlDecode(_)
Base64UrlDecode(str) ==
  IF Len(str) < 2 THEN << >>
  ELSE LET b1 == Value(str[1]) * 4 + Value(str[2]) \div 16
       IN  IF Len(str) = 2 THEN << b1 >>
           ELSE LET b2 == (Value(str[2]) % 16) * 16 + Value(str[3]) \div 4
                IN  IF Len(str) = 3 THEN << b1, b2 >>
                    ELSE << b1, b2, (Value(str[3]) % 4) * 64 + Value(str[4]) >>
                         \o Base64UrlDecode(SubSeq(str, 5, Len(str)))

stringFromArray(arr) == [i \in 1..Len(arr) |-> Printable[arr[i] - 31]]

\* The members of a JSON object of plain strings, as <<key, value>> pairs.
Unquote(str) == SubSeq(str, 2, Len(str) - 1)
ParseMember(str) == LET kv == Split(str, ":") IN << Unquote(kv[1]), Unquote(kv[2]) >>
ParseObject(str) ==
  IF Len(str) = 2 THEN << >>
  ELSE LET members == Split(Unquote(str), ",")
       IN  [i \in 1..Len(members) |-> ParseMember(members[i])]

\* The values an object holds for a key.
ValuesOf(h, k) == { h[i][2] : i \in { j \in 1..Len(h) : h[j][1] = k } }

\* The calls that resolved to a token, the token, its segments, its header.
Resolved == { c \in Calls : prom[c].result.st = "fulfilled" }
TokenOf(c) == prom[c].result.v
Segments(c) == Split(TokenOf(c), ".")
HeaderOf(c) == ParseObject(stringFromArray(Base64UrlDecode(Segments(c)[1])))

\* The result object the Cryptographer gave call c.
DataOf(c) == heap[prom[c].encrypt.v]

\* The calls that returned a promise.
Returned == { c \in Calls : phase[c] = "started" }

(***************************************************************************)
(* The shape of the token.                                                 *)
(***************************************************************************)
\* C1: every token has exactly five segments and four "." separators, in the
\* order protected header, wrapped CEK, IV, cipher text, tag, each segment
\* base64url; an empty segment keeps its separators.
C1_FiveSegments ==
  \A c \in Resolved :
    /\ Count(TokenOf(c), ".") = 4
    /\ Len(Segments(c)) = 5
    /\ \A i \in 1..5 : IsBase64Url(Segments(c)[i])
    /\ Segments(c)[1] \in { closure[d].header : d \in Returned }
    /\ Base64UrlDecode(Segments(c)[2]) = prom[c].encrypted_cek.v
    /\ Base64UrlDecode(Segments(c)[3]) \in { closure[d].iv : d \in Returned }
    /\ Base64UrlDecode(Segments(c)[4]) = DataOf(c).cipher
    /\ Base64UrlDecode(Segments(c)[5]) = DataOf(c).tag

\* A token whose wrapped CEK and tag segments are empty.
C1_Witness ==
  \E c \in Resolved :
    /\ prom[c].encrypted_cek.v = << >>
    /\ DataOf(c).tag = << >>
    /\ Segments(c)[2] = << >>
    /\ Segments(c)[5] = << >>

\* C2: in every successful call the AAD bytes given to the content encryption
\* are the bytes of the first segment of the token of that call.
C2_AadIsFirstSegment ==
  \A c \in Resolved : EncryptArguments(c).aad = arrayFromString(Segments(c)[1])

\* C3: whatever addHeader was given, the protected header of a token holds
\* for alg and enc the identifiers of the Cryptographer, once each.
C3_AlgEncFromCryptographer ==
  \A c \in Resolved :
    /\ ValuesOf(HeaderOf(c), alg) = { KeyEncryptionAlgorithm }
    /\ ValuesOf(HeaderOf(c), enc) = { ContentEncryptionAlgorithm }
    /\ \A k \in { alg, enc } :
         Cardinality({ i \in 1..Len(HeaderOf(c)) : HeaderOf(c)[i][1] = k }) = 1

\* A token of a call made after addHeader was given both alg and enc.
C3_Witness ==
  \E c \in Resolved :
    /\ invoked[c].written[alg] = << "1" >>
    /\ invoked[c].written[enc] = << "1" >>

(***************************************************************************)
(* Failures.                                                               *)
(***************************************************************************)
\* The errors of the operations of call c that failed.
ErrorOf(p) == IF p.st = "rejected" THEN { p.v } ELSE { }
Errors(c) ==
  ErrorOf(key_promise) \cup ErrorOf(prom[c].cek_promise) \cup
  ErrorOf(prom[c].wrapCek) \cup ErrorOf(prom[c].encrypt)

\* C4: when the key promise, the CEK creation, the wrap or the content
\* encryption fails, the promise encrypt returned never resolves to a token;
\* it rejects, with the error of a failed operation as that operation gave
\* it, once the reactions have run.
C4_ErrorPassThrough ==
  \A c \in Returned :
    /\ Errors(c) # { } => prom[c].result.st # "fulfilled"
    /\ prom[c].result.st = "rejected" => prom[c].result.v \in Errors(c)
    /\ (Errors(c) # { } /\ queue = << >>) => prom[c].result.st = "rejected"

\* A call rejected with the error of the wrap although its content encryption
\* succeeded, and one rejected with the error of the key promise.
C4_Witness ==
  \/ \E c \in Returned :
       /\ prom[c].result = Rejected(WrapErr)
       /\ prom[c].encrypt.st = "fulfilled"
  \/ \E c \in Returned :
       /\ prom[c].result = Rejected(KeyErr)
       /\ prom[c].cek_promise.st = "fulfilled"

\* C7: every call of encrypt hands its caller a promise, and no failure
\* reaches the caller in another way than as the rejection of that promise.
C7_OnlyRejectedPromise ==
  \A c \in Calls :
    phase[c] # "idle" => thrown[c] = "" /\ prom[c].result.st # "absent"

(***************************************************************************)
(* Headers and overlapping calls.                                          *)
(***************************************************************************)
\* C5: an addHeader after encrypt was called does not change the protected
\* header or the AAD of that call: both are those of the header map at the
\* time of the call.
C5_HeaderOfInvocation ==
  \A c \in Resolved :
    userHeaders # invoked[c].userHeaders =>
      /\ Segments(c)[1] = ProtectedHeader(invoked[c].userHeaders)
      /\ EncryptArguments(c).aad = arrayFromString(ProtectedHeader(invoked[c].userHeaders))

\* C6: the token of a call is built from the header snapshot, the IV, the
\* wrapped CEK, the cipher text and the tag of that call, whatever other calls
\* are in flight and whatever objects the Cryptographer hands back.
C6_CallsIndependent ==
  \A c \in Resolved :
    TokenOf(c) = Token(prom[c].wrapCek.v,
                       [header |-> closure[c].header, iv |-> closure[c].iv,
                        cipher |-> DataOf(c).cipher, tag |-> DataOf(c).tag])

\* C8: the protected header of a token holds for a key the last value given
\* to addHeader before the call, and nothing for a key never given.
C8_LastWriteWins ==
  \A c \in Resolved : \A k \in HeaderKeys \ { alg, enc } :
    ValuesOf(HeaderOf(c), k) =
      IF invoked[c].written[k] = << >> THEN { } ELSE { invoked[c].written[k] }

\* C9: segments two to five of a token decode to the wrapped CEK, the IV, the
\* cipher text and the tag of that call, the IV being the one the call gave
\* to the content encryption.
C9_SegmentsOfThisCall ==
  \A c \in Resolved :
    /\ Base64UrlDecode(Segments(c)[3]) = EncryptArguments(c).iv
    /\ Base64UrlDecode(Segments(c)[2]) = prom[c].wrapCek.v
    /\ Base64UrlDecode(Segments(c)[4]) = DataOf(c).cipher
    /\ Base64UrlDecode(Segments(c)[5]) = DataOf(c).tag

(***************************************************************************)
(* The order of the synchronous part.                                      *)
(***************************************************************************)
\* In call c, every operation named b comes after the copy of the headers.
AfterCopy(c, b) ==
  \A j \in 1..Len(ops[c]) :
    ops[c][j].op = b => \E i \in 1..(j - 1) : ops[c][i].op = "copyHeaders"

\* C10 as stated: the copy of the user headers comes before every operation
\* of the Cryptographer: CEK creation, IV creation, wrap, content encryption.
C10_CopyBeforeEveryOperation ==
  \A c \in Calls : \A b \in { "createCek", "createIV", "wrapCek", "encrypt" } : AfterCopy(c, b)

\* C10: the call invokes the CEK creation first and copies the user headers
\* next, before IV creation, wrap and content encryption.
C10_CopyAfterCreateCek ==
  \A c \in Calls :
    ops[c] # << >> =>
      /\ ops[c][1].op = "createCek"
      /\ Len(ops[c]) >= 2 /\ ops[c][2].op = "copyHeaders"
      /\ \A b \in { "createIV", "wrapCek", "encrypt" } : AfterCopy(c, b)

\* A call that went through all four operations after addHeader was called.
C10_Witness ==
  \E c \in Returned :
    /\ invoked[c].userHeaders # << >>
    /\ \A b \in { "createCek", "createIV", "wrapCek", "encrypt" } :
         \E j \in 1..Len(ops[c]) : ops[c][j].op = b

(***************************************************************************)
(* What each operation waits for.                                          *)
(***************************************************************************)
\* C11 as stated: neither the wrap nor the IV request nor the content
\* encryption request is started before the CEK creation has completed.
C11_AllGatedOnCek ==
  \A c \in Calls : \A b \in { "wrapCek", "createIV", "encrypt" } :
    HasOp(c, b) => Settled(prom[c].cek_promise)

\* C11: the wrap is not started before the CEK creation has completed with a
\* CEK; the IV request and the content encryption request are issued in the
\* synchronous part of encrypt, after the CEK creation was invoked, and the
\* content encryption is given the promise of the CEK.
C11_WrapGatedOnCek ==
  \A c \in Calls :
    /\ HasOp(c, "wrapCek") => prom[c].cek_promise.st = "fulfilled"
    /\ c \in Returned =>
         /\ \E i, j, l \in 1..Len(ops[c]) :
              /\ i < j /\ j < l
              /\ ops[c][i].op = "createCek"
              /\ ops[c][j].op = "createIV"
              /\ ops[c][l].op = "encrypt"
         /\ EncryptArguments(c).cek_promise = c

\* One call wrapped its CEK while the content encryption of another was
\* requested and its CEK still pending.
C11_Witness ==
  /\ \E c \in Returned : HasOp(c, "wrapCek")
  /\ \E d \in Returned : HasOp(d, "encrypt") /\ prom[d].cek_promise.st = "pending"

\* C12: the wrap is invoked only when the recipient key and the CEK have both
\* fulfilled, with these two values, never with one of them and never when
\* one of them failed.
C12_WrapJoinsKeyAndCek ==
  \A c \in Calls :
    HasOp(c, "wrapCek") =>
      /\ key_promise.st = "fulfilled"
      /\ prom[c].cek_promise.st = "fulfilled"
      /\ prom[c].key_and_cek.st = "fulfilled"
      /\ WrapArguments(c).key = key_promise.v
      /\ WrapArguments(c).cek = prom[c].cek_promise.v

\* One call wrapped; in another the CEK creation failed, the key is there, the
\* reactions have run and the wrap was not invoked.
C12_Witness ==
  /\ \E c \in Calls : HasOp(c, "wrapCek")
  /\ \E d \in Returned :
       /\ prom[d].cek_promise.st = "rejected"
       /\ key_promise.st = "fulfilled"
       /\ queue = << >>
       /\ ~HasOp(d, "wrapCek")

\* C13: a token exists only when the wrap and the content encryption of the
\* call have both completed successfully, never while one of them is pending
\* or has failed.
C13_TokenAfterBoth ==
  \A c \in Calls :
    prom[c].result.st = "fulfilled" =>
      /\ prom[c].wrapCek.st = "fulfilled"
      /\ prom[c].encrypt.st = "fulfilled"
      /\ prom[c].encrypted_cek.st = "fulfilled"
      /\ prom[c].enc_promise.st = "fulfilled"
      /\ Len(Segments(c)) = 5

\* One call has its token; in another the content encryption is done, the
\* wrap is pending and there is no token.
C13_Witness ==
  /\ \E c \in Calls : prom[c].result.st = "fulfilled"
  /\ \E d \in Returned :
       /\ prom[d].enc_promise.st = "fulfilled"
       /\ prom[d].wrapCek.st = "pending"
       /\ prom[d].result.st = "pending"
       /\ queue = << >>

\* C14: the IV request and the content encryption request are issued whatever
\* the state of the recipient key, and once the content encryption fulfils
\* its callback completes, also while the key is pending or rejected.
C14_ContentEncryptIgnoresKey ==
  \A c \in Returned :
    /\ HasOp(c, "createIV") /\ HasOp(c, "encrypt")
    /\ (prom[c].encrypt.st = "fulfilled" /\ queue = << >>) =>
         /\ prom[c].enc_promise.st = "fulfilled"
         /\ prom[c].enc_promise.v = prom[c].encrypt.v
         /\ DataOf(c).header # << >>
         /\ DataOf(c).iv # << >>

\* The content encryption of a call completed while the key is pending.
C14_Witness ==
  \E c \in Returned :
    /\ key_promise.st = "pending"
    /\ prom[c].enc_promise.st = "fulfilled"
    /\ DataOf(c).iv = closure[c].iv

\* C15: the outcome of a call is final: once the promise encrypt returned is
\* rejected or fulfilled it keeps its state and its value, whatever fails or
\* completes later.
C15_OutcomeIsFinal ==
  [][\A c \in Calls :
       Settled(prom[c].result) =>
         /\ prom'[c].result.st = prom[c].result.st
         /\ prom'[c].result.v = prom[c].result.v]_vars

\* A call rejected with the error of one operation while its content
\* encryption has failed as well.
C15_Witness ==
  \E c \in Returned :
    /\ prom[c].result.st = "rejected"
    /\ prom[c].result.v # EncErr
    /\ prom[c].enc_promise.st = "rejected"
    /\ queue = << >>

\* C16: a failure in one branch does not abort the other: with the reactions
\* run, the wrap was invoked whenever key and CEK are there, also when the
\* content encryption failed, and the content encryption branch has the
\* outcome of the content encryption, also when the key was rejected.
C16_NoCancellation ==
  \A c \in Calls :
    (phase[c] # "idle" /\ queue = << >>) =>
      /\ (key_promise.st = "fulfilled" /\ prom[c].cek_promise.st = "fulfilled") => HasOp(c, "wrapCek")
      /\ c \in Returned => prom[c].enc_promise.st = prom[c].encrypt.st

\* A call that failed with the error of the content encryption and whose wrap
\* was invoked and is awaited.
C16_Witness ==
  \E c \in Returned :
    /\ prom[c].result = Rejected(EncErr)
    /\ HasOp(c, "wrapCek")
    /\ prom[c].wrapCek.st = "pending"

(***************************************************************************)
(* Once per call, one CEK per call, the state of the Encrypter.            *)
(***************************************************************************)
Times(c, b) == Cardinality({ j \in 1..Len(ops[c]) : ops[c][j].op = b })

\* C17: within one call each operation of the Cryptographer, CEK creation, IV
\* creation, wrap and content encryption, is invoked at most once, also after
\* a failure.
C17_NoRetries ==
  \A c \in Calls : \A b \in { "createCek", "createIV", "wrapCek", "encrypt" } : Times(c, b) <= 1

\* A call whose wrap and content encryption both failed, with the reactions
\* run, and each of its four operations invoked once.
C17_Witness ==
  \E c \in Returned :
    /\ prom[c].wrapCek.st = "rejected"
    /\ prom[c].encrypt.st = "rejected"
    /\ queue = << >>
    /\ \A b \in { "createCek", "createIV", "wrapCek", "encrypt" } : Times(c, b) = 1

\* C18: the wrap of a call is given the CEK its own CEK creation made, the
\* content encryption of the call is given the promise of that same CEK
\* creation, and no two calls use the same CEK.
C18_SameCek ==
  \A c \in Calls :
    /\ HasOp(c, "encrypt") => EncryptArguments(c).cek_promise = c
    /\ HasOp(c, "wrapCek") =>
         /\ WrapArguments(c).cek = c
         /\ prom[c].cek_promise.st = "fulfilled" /\ prom[c].cek_promise.v = c
         /\ \A d \in Calls \ { c } : HasOp(d, "wrapCek") => WrapArguments(d).cek # WrapArguments(c).cek

\* Two calls in flight that both wrapped their CEK.
C18_Witness ==
  \A c \in Calls : c \in Returned /\ HasOp(c, "wrapCek") /\ prom[c].result.st = "pending"

\* The header map holds what addHeader was given, nothing else.
HeaderMapAsWritten ==
  /\ \A k \in HeaderKeys :
       ValuesOf(userHeaders, k) = IF written[k] = << >> THEN { } ELSE { written[k] }
  /\ \A i \in 1..Len(userHeaders) : userHeaders[i][1] \in HeaderKeys
  /\ Len(userHeaders) <= added

\* C19: encrypt and its reactions leave the state of the Encrypter as it is:
\* the header map holds what addHeader was given and changes only in
\* addHeader, the Cryptographer stays the same, and the key promise is the same
\* promise, which only settles.
C19_EncryptLeavesStateUnchanged ==
  /\ []HeaderMapAsWritten
  /\ [][/\ added' = added => userHeaders' = userHeaders
        /\ cryptographer' = cryptographer
        /\ key_promise'.st # key_promise.st => key_promise.st = "pending"
        /\ key_promise'.st = key_promise.st => key_promise'.v = key_promise.v]_vars

\* One call gave a token and another failed, and the header map holds the one
\* key addHeader was given, without alg and enc.
C19_Witness ==
  /\ \E c \in Calls : prom[c].result.st = "fulfilled"
  /\ \E d \in Calls : phase[d] = "threw" \/ prom[d].result.st = "rejected"
  /\ Len(userHeaders) = 1
  /\ ~HasKey(userHeaders, alg) /\ ~HasKey(userHeaders, enc)

(***************************************************************************)
(* Termination.  The host runs every promise reaction job that is queued;  *)
(* nothing says when, or whether, the collaborators settle their promises. *)
(***************************************************************************)
Reaction ==
  \E c \in Calls :
    \/ KeyElement(c) \/ CekElement(c) \/ WrapCallback(c) \/ WrapSettled(c)
    \/ EncryptCallback(c) \/ EncryptedCekElement(c) \/ EncPromiseElement(c) \/ Assemble(c)

\* The header map plays no part in the settling of a call.
LiveNext ==
  \/ \E c \in Calls, t \in { "none", AlgErr, EncAlgErr, IvErr } : Encrypt(c, t)
  \/ \E res \in { Fulfilled(RecipientKey), Rejected(KeyErr) } : SettleKey(res)
  \/ \E c \in Calls : ResolveCek(c)
  \/ \E c \in Calls : RejectCek(c)
  \/ \E c \in Calls : ResolveWrap(c)
  \/ \E c \in Calls : RejectWrap(c)
  \/ \E c \in Calls : ResolveEncrypt(c)
  \/ \E c \in Calls : RejectEncrypt(c)
  \/ Reaction

\* The host runs the job at the head of the queue as long as there is one;
\* every reaction takes that job off, so it changes queue.
LiveSpec == Init /\ [][LiveNext]_vars /\ WF_queue(Reaction)

\* The key promise and the promises the Cryptographer gave call c have settled.
ExternalsSettled(c) ==
  /\ c \in Returned
  /\ Settled(key_promise)
  /\ Settled(prom[c].cek_promise)
  /\ Settled(prom[c].encrypt)
  /\ prom[c].wrapCek.st # "pending"

\* C20: when the key promise and every promise the Cryptographer gave a call
\* settle, the promise encrypt returned for the call settles.
C20_Settles ==
  \A c \in Calls : (<>[]ExternalsSettled(c)) => <>Settled(prom[c].result)

\* A call settled after the wrap and the content encryption settled.
C20_Witness ==
  \E c \in Calls :
    /\ ExternalsSettled(c)
    /\ Settled(prom[c].wrapCek)
    /\ Settled(prom[c].result)
====
